---- MODULE Spec2Model ----
(***************************************************************************)
(* A model of three pieces of asusctl:                                     *)
(*   - the AniMe packet codec (rog-anime/src/data.rs, AnimeDataBuffer and  *)
(*     TryFrom<AnimeDataBuffer> for AnimePacketType),                      *)
(*   - the Aura LED command encoder and the AuraModeNum / Speed            *)
(*     conversions (rog-aura/src/builtin_modes.rs),                        *)
(*   - the animation scheduler run_animation (rog-anime/src/data.rs).      *)
(*                                                                         *)
(* Conventions.  A Vec<u8> is a sequence (1-based), a fixed-size array     *)
(* [u8; N] is a function on 0..N-1, so that array offsets are the          *)
(* source's.  A Result is a record [tag, val] with tag "Ok" or "Err"; a    *)
(* panic is the record Panic.  Each component has its own specification;   *)
(* the other components' variables stay at their initial values.           *)
(***************************************************************************)
EXTENDS Integers, Sequences, FiniteSets, TLC

VARIABLES
    anime,      \* codec: the device variant the caller works with
    vec,        \* codec: the byte vector the caller supplies
    buffer,     \* codec: the AnimeDataBuffer held by the caller, or None
    arg,        \* codec: the buffer the last try_from consumed, or None
    ret,        \* codec: the value the last codec call returned
    op          \* codec: the name of the last codec call

codecVars == <<anime, vec, buffer, arg, ret, op>>

VARIABLES
    st,         \* led: the AuraEffect the caller holds (its fields are pub)
    led_op,     \* led: the last call on the effect: "encode", "speed_into_u8"
    led_ret     \* led: the value that call returned

ledVars == <<st, led_op, led_ret>>

VARIABLES
    conv        \* conv: the last AuraModeNum conversion: its name, argument
                \* and result, and (of) the mode a round trip started from

convVars == <<conv>>

VARIABLES
    frames,         \* run: the frames of the AnimeGif, each [data, delay]
    duration,       \* run: the AnimTime of the AnimeGif
    pc,             \* run: where run_animation stands
    now,            \* run: the monotonic clock (Instant::now()), in ms
    idx,            \* run: frames of the current pass already handled
    frame_start,    \* run: Instant at which the current frame was started
    count,          \* run: passes completed (Count policy)
    start,          \* run: Instant at which run_animation started
    timed,
    run_time,
    fade_in,
    fade_out,
    fade_in_step,   \* run: a rate 1/d per ms, kept as its divisor d
    fade_out_step,
    fade_in_accum,  \* run: a factor, kept as the fraction [num, den]
    output,         \* run: the buffer last handed to the callback
    cb_ret,         \* run: what the callback last returned
    calls,          \* run: number of callback invocations so far
    log             \* run: the frames transmitted and the sleeps, in order

runInputs == <<frames, duration>>
runLocals == <<count, start, timed, run_time, fade_in, fade_out,
               fade_in_step, fade_out_step, fade_in_accum>>
runVars == <<runInputs, pc, now, idx, frame_start, runLocals, output, cb_ret, calls, log>>

VARIABLES
    gif_loops,      \* cli: the loop count given on the command line
    matrix,         \* cli: the frames of the decoded gif
    loops,          \* cli: the countdown
    cli_pc,         \* cli: where the playback loop stands
    cli_idx,        \* cli: frames of the current pass already written
    passes,         \* cli: full passes completed
    writes,         \* cli: frames written through the proxy
    cli_ret         \* cli: what handle_anime returned

cliVars == <<gif_loops, matrix, loops, cli_pc, cli_idx, passes, writes, cli_ret>>

VARIABLES
    attrs,          \* fan: the attribute names of the fan-curve hwmon device
    dev_curve,      \* fan: the curve the device holds for each fan
    profiles,       \* fan: the FanCurveProfiles (self), a curve list per policy
    before,         \* fan: self as it was when the last call was entered
    fan_op,         \* fan: the last call: its name, profile and argument
    fan_ret,        \* fan: what the last call returned
    io,             \* fan: the device accesses of the last call, in order
    fan_calls,      \* fan: number of calls made
    was_read        \* fan: the policies a read has returned Ok for so far

fanVars == <<attrs, dev_curve, profiles, before, fan_op, fan_ret, io, fan_calls, was_read>>

vars == <<codecVars, ledVars, convVars, runVars, cliVars, fanVars>>

None == [tag |-> "None"]
Some(v) == [tag |-> "Some", val |-> v]
Ok(v) == [tag |-> "Ok", val |-> v]
Err(e) == [tag |-> "Err", val |-> e]
Panic == [tag |-> "Panic"]

Min(a, b) == IF a < b THEN a ELSE b

(***************************************************************************)
(* AniMe packet codec                                                      *)
(***************************************************************************)

\* Bounds of the codec inputs.
\* Vec lengths tried are k * PANE_LEN + d, k in 0..MaxPanes, |d| <= MaxSkew.
MaxPanes == 3
MaxSkew == 1
\* Byte i of an input vector is (stride * i + fill) % 256.
MaxStride == 1
MaxFill == 1

BLOCK_START == 7
BLOCK_END == 634
PANE_LEN == BLOCK_END - BLOCK_START
PACKET_LEN == 640

USB_PREFIX1 == <<94, 192, 2, 1, 0, 115, 2>>
USB_PREFIX2 == <<94, 192, 2, 116, 2, 115, 2>>
USB_PREFIX3 == <<94, 192, 2, 231, 4, 115, 2>>

AnimeType == {"GA401", "GA402", "GU604", "Unknown"}

data_length(a) ==
    CASE a = "GA401" -> PANE_LEN * 2
      [] a = "GU604" -> PANE_LEN * 3
      [] OTHER -> PANE_LEN * 3

\* vec![0u8; n]
ZeroVec(n) == [i \in 1..n |-> 0]
\* [0; n]
ZeroArray(n) == [i \in 0..(n - 1) |-> 0]

\* AnimeDataBuffer::new
AnimeDataBuffer_new(a) == [data |-> ZeroVec(data_length(a)), anime |-> a]

\* from_vec with the length test weakened to "too short".
from_vec_too_short_only(a, data) ==
    IF Len(data) < data_length(a)
    THEN Err("DataBufferLength")
    ELSE Ok([data |-> data, anime |-> a])

\* AnimeDataBuffer::from_vec
from_vec(a, data) ==
    IF Len(data) # data_length(a)
    THEN Err("DataBufferLength")
    ELSE Ok([data |-> data, anime |-> a])

\* slice.chunks(n): consecutive chunks of n elements, the last one shorter
\* when n does not divide the length.
chunks(s, n) ==
    [k \in 1..((Len(s) + n - 1) \div n) |->
        SubSeq(s, (k - 1) * n + 1, Min(k * n, Len(s)))]

\* copy_from_slice filling the range back to front.
copy_from_slice_reversed(array, lo, hi, src) ==
    IF array = Panic \/ Len(src) # hi - lo
    THEN Panic
    ELSE [j \in DOMAIN array |->
            IF lo <= j /\ j < hi THEN src[hi - j] ELSE array[j]]

\* array[lo..hi].copy_from_slice(src): panics unless the lengths agree.
copy_from_slice(array, lo, hi, src) ==
    IF array = Panic \/ Len(src) # hi - lo
    THEN Panic
    ELSE [j \in DOMAIN array |->
            IF lo <= j /\ j < hi THEN src[j - lo + 1] ELSE array[j]]

\* buffers[i][lo..hi].copy_from_slice(src), i counted from 0 as in the
\* source; indexing past the end of the Vec panics.
CopyInto(buffers, i, lo, hi, src) ==
    IF buffers = Panic \/ i >= Len(buffers)
    THEN Panic
    ELSE LET new == copy_from_slice(buffers[i + 1], lo, hi, src)
         IN  IF new = Panic THEN Panic
             ELSE [buffers EXCEPT ![i + 1] = new]

\* for (idx, chunk) in data.chunks(PANE_LEN).enumerate() { ... }
RECURSIVE CopyChunks(_, _, _)
CopyChunks(buffers, cs, k) ==
    IF k > Len(cs) THEN buffers
    ELSE CopyChunks(CopyInto(buffers, k - 1, BLOCK_START, BLOCK_END, cs[k]), cs, k + 1)

\* The third prefix written for GA402 only.
HasThirdPacket_GA402_only(a) == a = "GA402"

\* matches!(anime.anime, GA402 | GU604 | Unknown)
HasThirdPacket(a) == a \in {"GA402", "GU604", "Unknown"}

\* impl TryFrom<AnimeDataBuffer> for AnimePacketType
try_from(b) ==
    IF Len(b.data) # data_length(b.anime)
    THEN Err("DataBufferLength")
    ELSE LET b0 == IF b.anime = "GA401"
                   THEN [i \in 1..2 |-> ZeroArray(PACKET_LEN)]
                   ELSE [i \in 1..3 |-> ZeroArray(PACKET_LEN)]
             b1 == CopyChunks(b0, chunks(b.data, PANE_LEN), 1)
             b2 == CopyInto(b1, 0, 0, 7, USB_PREFIX1)
             b3 == CopyInto(b2, 1, 0, 7, USB_PREFIX2)
             b4 == IF HasThirdPacket(b.anime)
                   THEN CopyInto(b3, 2, 0, 7, USB_PREFIX3)
                   ELSE b3
         IN  IF b4 = Panic THEN Panic ELSE Ok(b4)

\* The byte vectors the model feeds to the codec.
VecLens == {n \in {k * PANE_LEN + d : k \in 0..MaxPanes, d \in (0 - MaxSkew)..MaxSkew} : n >= 0}
Pattern(n, stride, fill) == [i \in 1..n |-> (stride * (i - 1) + fill) % 256]
InputVecs == {Pattern(n, s, f) : n \in VecLens, s \in 0..MaxStride, f \in 0..MaxFill}

CodecIdle ==
    /\ anime = "Unknown"
    /\ vec = <<>>
    /\ buffer = None
    /\ arg = None
    /\ ret = None
    /\ op = "none"

CodecInit ==
    /\ anime \in AnimeType
    /\ vec \in InputVecs
    /\ buffer = None
    /\ arg = None
    /\ ret = None
    /\ op = "none"

\* AnimeDataBuffer::new(anime)
New ==
    /\ buffer' = Ok(AnimeDataBuffer_new(anime))
    /\ arg' = None
    /\ ret' = buffer'
    /\ op' = "new"
    /\ UNCHANGED <<anime, vec, ledVars, convVars, runVars, cliVars, fanVars>>

\* AnimeDataBuffer::from_vec(anime, vec)
FromVec ==
    /\ ret' = from_vec(anime, vec)
    /\ buffer' = IF ret'.tag = "Ok" THEN ret' ELSE None
    /\ arg' = None
    /\ op' = "from_vec"
    /\ UNCHANGED <<anime, vec, ledVars, convVars, runVars, cliVars, fanVars>>

\* #[derive(DeRon)]: a buffer read back from its serialised form; the derived
\* reader fills the two fields and checks no length.
DeRon ==
    /\ buffer' = Ok([data |-> vec, anime |-> anime])
    /\ arg' = None
    /\ ret' = buffer'
    /\ op' = "de_ron"
    /\ UNCHANGED <<anime, vec, ledVars, convVars, runVars, cliVars, fanVars>>

\* AnimePacketType::try_from(buffer): the buffer is moved into the call; arg
\* keeps the buffer that was encoded.
TryFrom ==
    /\ buffer.tag = "Ok"
    /\ ret' = try_from(buffer.val)
    /\ arg' = buffer.val
    /\ buffer' = None
    /\ op' = "try_from"
    /\ UNCHANGED <<anime, vec, ledVars, convVars, runVars, cliVars, fanVars>>

CodecNext ==
    \/ New
    \/ FromVec
    \/ DeRon
    \/ TryFrom

(***************************************************************************)
(* Aura LED command encoder                                                *)
(***************************************************************************)

\* Bound of the colours tried: ColourOf(0) .. ColourOf(MaxColour).
MaxColour == 1

LED_MSG_LEN == 17

U8 == 0..255

AuraModeNum == {"Static", "Breathe", "Strobe", "Rainbow", "Star", "Rain",
                "Highlight", "Laser", "Ripple", "Pulse", "Comet", "Flash"}
AuraZone == {"None", "Key1", "Key2", "Key3", "Key4", "Logo", "BarLeft", "BarRight"}
Speed == {"Low", "Med", "High"}
Direction == {"Right", "Left", "Up", "Down"}

\* `mode as u8`: the discriminants of enum AuraModeNum.
AuraModeNum_as_u8(mode) ==
    CASE mode = "Static" -> 0
      [] mode = "Breathe" -> 1
      [] mode = "Strobe" -> 2
      [] mode = "Rainbow" -> 3
      [] mode = "Star" -> 4
      [] mode = "Rain" -> 5
      [] mode = "Highlight" -> 6
      [] mode = "Laser" -> 7
      [] mode = "Ripple" -> 8
      [] mode = "Pulse" -> 10
      [] mode = "Comet" -> 11
      [] mode = "Flash" -> 12

\* `zone as u8`: the discriminants of enum AuraZone.
AuraZone_as_u8(zone) ==
    CASE zone = "None" -> 0
      [] zone = "Key1" -> 1
      [] zone = "Key2" -> 2
      [] zone = "Key3" -> 3
      [] zone = "Key4" -> 4
      [] zone = "Logo" -> 5
      [] zone = "BarLeft" -> 6
      [] zone = "BarRight" -> 7

\* impl From<Speed> for u8
Speed_into_u8(s) ==
    CASE s = "Low" -> 0
      [] s = "Med" -> 1
      [] s = "High" -> 2

\* The cast replaced by the From<Speed> conversion.
Speed_as_u8_via_from(speed) == Speed_into_u8(speed)

\* `speed as u8`: the discriminants of enum Speed (0xe1, 0xeb, 0xf5).
Speed_as_u8(speed) ==
    CASE speed = "Low" -> 225
      [] speed = "Med" -> 235
      [] speed = "High" -> 245

\* `direction as u8`: the discriminants of enum Direction.
Direction_as_u8(direction) ==
    CASE direction = "Right" -> 0
      [] direction = "Left" -> 1
      [] direction = "Up" -> 2
      [] direction = "Down" -> 3

\* impl From<&AuraModeNum> for &str
AuraModeNum_into_str(mode) ==
    CASE mode = "Static" -> "Static"
      [] mode = "Breathe" -> "Breathe"
      [] mode = "Strobe" -> "Strobe"
      [] mode = "Rainbow" -> "Rainbow"
      [] mode = "Star" -> "Stars"
      [] mode = "Rain" -> "Rain"
      [] mode = "Highlight" -> "Highlight"
      [] mode = "Laser" -> "Laser"
      [] mode = "Ripple" -> "Ripple"
      [] mode = "Pulse" -> "Pulse"
      [] mode = "Comet" -> "Comet"
      [] mode = "Flash" -> "Flash"

\* From<&str> matching the variant's identifier "Star" instead of the
\* display name "Stars".
AuraModeNum_from_str_ident(mode) ==
    CASE mode = "Breathe" -> "Breathe"
      [] mode = "Strobe" -> "Strobe"
      [] mode = "Rainbow" -> "Rainbow"
      [] mode = "Star" -> "Star"
      [] mode = "Rain" -> "Rain"
      [] mode = "Highlight" -> "Highlight"
      [] mode = "Laser" -> "Laser"
      [] mode = "Ripple" -> "Ripple"
      [] mode = "Pulse" -> "Pulse"
      [] mode = "Comet" -> "Comet"
      [] mode = "Flash" -> "Flash"
      [] OTHER -> "Static"

\* impl From<&str> for AuraModeNum
AuraModeNum_from_str(mode) ==
    CASE mode = "Breathe" -> "Breathe"
      [] mode = "Strobe" -> "Strobe"
      [] mode = "Rainbow" -> "Rainbow"
      [] mode = "Stars" -> "Star"
      [] mode = "Rain" -> "Rain"
      [] mode = "Highlight" -> "Highlight"
      [] mode = "Laser" -> "Laser"
      [] mode = "Ripple" -> "Ripple"
      [] mode = "Pulse" -> "Pulse"
      [] mode = "Comet" -> "Comet"
      [] mode = "Flash" -> "Flash"
      [] OTHER -> "Static"

\* From<u8> with the codes after Ripple renumbered contiguously.
AuraModeNum_from_u8_contiguous(mode) ==
    CASE mode = 1 -> "Breathe"
      [] mode = 2 -> "Strobe"
      [] mode = 3 -> "Rainbow"
      [] mode = 4 -> "Star"
      [] mode = 5 -> "Rain"
      [] mode = 6 -> "Highlight"
      [] mode = 7 -> "Laser"
      [] mode = 8 -> "Ripple"
      [] mode = 9 -> "Pulse"
      [] mode = 10 -> "Comet"
      [] mode = 11 -> "Flash"
      [] OTHER -> "Static"

\* impl From<u8> for AuraModeNum
AuraModeNum_from_u8(mode) ==
    CASE mode = 1 -> "Breathe"
      [] mode = 2 -> "Strobe"
      [] mode = 3 -> "Rainbow"
      [] mode = 4 -> "Star"
      [] mode = 5 -> "Rain"
      [] mode = 6 -> "Highlight"
      [] mode = 7 -> "Laser"
      [] mode = 8 -> "Ripple"
      [] mode = 10 -> "Pulse"
      [] mode = 11 -> "Comet"
      [] mode = 12 -> "Flash"
      [] OTHER -> "Static"

\* impl Default for AuraEffect
AuraEffect_default ==
    [mode |-> "Static", zone |-> "None",
     colour1 |-> [r |-> 166, g |-> 0, b |-> 0],
     colour2 |-> [r |-> 0, g |-> 0, b |-> 0],
     speed |-> "Med", direction |-> "Right"]

\* AuraEffect::default_with_mode
default_with_mode(mode) == [AuraEffect_default EXCEPT !.mode = mode]

\* AuraEffect::mode_num
mode_num(self) == AuraModeNum_as_u8(self.mode)

\* AuraEffect::mode_name
mode_name(self) == AuraModeNum_into_str(self.mode)

\* AuraParameters::new
AuraParameters_new(zone, colour1, colour2, speed, direction) ==
    [zone |-> zone, colour1 |-> colour1, colour2 |-> colour2,
     speed |-> speed, direction |-> direction]

\* AuraEffect::allowed_parameters
allowed_parameters(mode) ==
    CASE mode \in {"Static", "Highlight", "Pulse", "Comet", "Flash"} ->
            AuraParameters_new(TRUE, TRUE, FALSE, FALSE, FALSE)
      [] mode = "Breathe" -> AuraParameters_new(TRUE, TRUE, TRUE, TRUE, FALSE)
      [] mode \in {"Strobe", "Rain"} -> AuraParameters_new(TRUE, FALSE, FALSE, TRUE, FALSE)
      [] mode = "Rainbow" -> AuraParameters_new(TRUE, FALSE, FALSE, TRUE, TRUE)
      [] mode = "Star" -> AuraParameters_new(TRUE, TRUE, TRUE, TRUE, TRUE)
      [] mode \in {"Laser", "Ripple"} -> AuraParameters_new(TRUE, TRUE, FALSE, TRUE, FALSE)

\* msg[i] = v
Store(msg, i, v) == [msg EXCEPT ![i] = v]

\* The encoder with the zone and mode bytes swapped.
Encode_zone_mode_swapped(aura) ==
    LET m0 == ZeroArray(LED_MSG_LEN)
        m1 == Store(m0, 0, 93)
        m2 == Store(m1, 1, 179)
        m3 == Store(m2, 3, AuraZone_as_u8(aura.zone))
        m4 == Store(m3, 2, AuraModeNum_as_u8(aura.mode))
        m5 == Store(m4, 4, aura.colour1.r)
        m6 == Store(m5, 5, aura.colour1.g)
        m7 == Store(m6, 6, aura.colour1.b)
        m8 == Store(m7, 7, Speed_as_u8(aura.speed))
        m9 == Store(m8, 8, Direction_as_u8(aura.direction))
        m10 == Store(m9, 10, aura.colour2.r)
        m11 == Store(m10, 11, aura.colour2.g)
        m12 == Store(m11, 12, aura.colour2.b)
    IN  m12

\* The encoder writing the second colour one byte early, over the reserved
\* byte 9.
Encode_colour2_early(aura) ==
    LET m0 == ZeroArray(LED_MSG_LEN)
        m1 == Store(m0, 0, 93)
        m2 == Store(m1, 1, 179)
        m3 == Store(m2, 2, AuraZone_as_u8(aura.zone))
        m4 == Store(m3, 3, AuraModeNum_as_u8(aura.mode))
        m5 == Store(m4, 4, aura.colour1.r)
        m6 == Store(m5, 5, aura.colour1.g)
        m7 == Store(m6, 6, aura.colour1.b)
        m8 == Store(m7, 7, Speed_as_u8(aura.speed))
        m9 == Store(m8, 8, Direction_as_u8(aura.direction))
        m10 == Store(m9, 9, aura.colour2.r)
        m11 == Store(m10, 10, aura.colour2.g)
        m12 == Store(m11, 11, aura.colour2.b)
    IN  m12

\* impl From<&AuraEffect> for [u8; LED_MSG_LEN]
Encode(aura) ==
    LET m0 == ZeroArray(LED_MSG_LEN)
        m1 == Store(m0, 0, 93)
        m2 == Store(m1, 1, 179)
        m3 == Store(m2, 2, AuraZone_as_u8(aura.zone))
        m4 == Store(m3, 3, AuraModeNum_as_u8(aura.mode))
        m5 == Store(m4, 4, aura.colour1.r)
        m6 == Store(m5, 5, aura.colour1.g)
        m7 == Store(m6, 6, aura.colour1.b)
        m8 == Store(m7, 7, Speed_as_u8(aura.speed))
        m9 == Store(m8, 8, Direction_as_u8(aura.direction))
        m10 == Store(m9, 10, aura.colour2.r)
        m11 == Store(m10, 11, aura.colour2.g)
        m12 == Store(m11, 12, aura.colour2.b)
    IN  m12

\* The colours the model gives to an effect: ColourOf(0) is Colour::default(),
\* ColourOf(1) the colour of tests::check_led_static_packet.
ColourOf(k) == [r |-> (166 + 89 * k) % 256, g |-> (17 * k) % 256, b |-> (221 * k) % 256]
Colours == {ColourOf(k) : k \in 0..MaxColour}

LedIdle ==
    /\ st = AuraEffect_default
    /\ led_op = "none"
    /\ led_ret = None

\* let mut st = AuraEffect::default();
LedInit == LedIdle

\* <[u8; LED_MSG_LEN]>::from(&st)
EncodeEffect ==
    /\ led_ret' = Encode(st)
    /\ led_op' = "encode"
    /\ UNCHANGED <<st, codecVars, convVars, runVars, cliVars, fanVars>>

\* st = AuraEffect::default_with_mode(mode); <[u8; LED_MSG_LEN]>::from(&st)
DefaultWithMode(mode) ==
    /\ st' = default_with_mode(mode)
    /\ led_ret' = Encode(st')
    /\ led_op' = "encode"
    /\ UNCHANGED <<codecVars, convVars, runVars, cliVars, fanVars>>

\* st.<field> = value; <[u8; LED_MSG_LEN]>::from(&st)
SetField(field, value) ==
    /\ st[field] # value
    /\ st' = [st EXCEPT ![field] = value]
    /\ led_ret' = Encode(st')
    /\ led_op' = "encode"
    /\ UNCHANGED <<codecVars, convVars, runVars, cliVars, fanVars>>

SetZone == \E zone \in AuraZone : SetField("zone", zone)
SetMode == \E mode \in AuraModeNum : SetField("mode", mode)
SetColour1 == \E c \in Colours : SetField("colour1", c)
SetColour2 == \E c \in Colours : SetField("colour2", c)
SetSpeed == \E speed \in Speed : SetField("speed", speed)
SetDirection == \E d \in Direction : SetField("direction", d)

\* u8::from(st.speed)
SpeedIntoU8 ==
    /\ led_ret' = Speed_into_u8(st.speed)
    /\ led_op' = "speed_into_u8"
    /\ UNCHANGED <<st, codecVars, convVars, runVars, cliVars, fanVars>>

LedNext ==
    \/ EncodeEffect
    \/ \E mode \in AuraModeNum : DefaultWithMode(mode)
    \/ SetZone
    \/ SetMode
    \/ SetColour1
    \/ SetColour2
    \/ SetSpeed
    \/ SetDirection
    \/ SpeedIntoU8

(***************************************************************************)
(* AuraModeNum conversions                                                 *)
(***************************************************************************)

\* The strings given to From<&str>: the display names and some others.
StrInputs == {AuraModeNum_into_str(m) : m \in AuraModeNum}
                \cup {"Star", "static", "", "Static ", "9"}

Conv(o, a, r, f) == [op |-> o, arg |-> a, out |-> r, of |-> f]

ConvIdle == conv = Conv("none", None, None, None)

ConvInit == ConvIdle

\* effect.mode_num(), the effect being default_with_mode(mode)
ModeNum(mode) ==
    /\ conv' = Conv("mode_num", mode, mode_num(default_with_mode(mode)), None)
    /\ UNCHANGED <<codecVars, ledVars, runVars, cliVars, fanVars>>

\* effect.mode_name()
ModeName(mode) ==
    /\ conv' = Conv("mode_name", mode, mode_name(default_with_mode(mode)), None)
    /\ UNCHANGED <<codecVars, ledVars, runVars, cliVars, fanVars>>

\* AuraModeNum::from(code), code being what mode_num() just returned
FromModeNum ==
    /\ conv.op = "mode_num"
    /\ conv' = Conv("from_u8", conv.out, AuraModeNum_from_u8(conv.out), Some(conv.arg))
    /\ UNCHANGED <<codecVars, ledVars, runVars, cliVars, fanVars>>

\* AuraModeNum::from(name), name being what mode_name() just returned
FromModeName ==
    /\ conv.op = "mode_name"
    /\ conv' = Conv("from_str", conv.out, AuraModeNum_from_str(conv.out), Some(conv.arg))
    /\ UNCHANGED <<codecVars, ledVars, runVars, cliVars, fanVars>>

\* AuraModeNum::from(n) for a byte from outside
FromU8(n) ==
    /\ conv' = Conv("from_u8", n, AuraModeNum_from_u8(n), None)
    /\ UNCHANGED <<codecVars, ledVars, runVars, cliVars, fanVars>>

\* AuraModeNum::from(s) for a string from outside
FromStr(s) ==
    /\ conv' = Conv("from_str", s, AuraModeNum_from_str(s), None)
    /\ UNCHANGED <<codecVars, ledVars, runVars, cliVars, fanVars>>

\* <[u8; LED_MSG_LEN]>::from(&AuraEffect::default_with_mode(mode))
EncodeMode(mode) ==
    /\ conv' = Conv("encode", mode, Encode(default_with_mode(mode)), None)
    /\ UNCHANGED <<codecVars, ledVars, runVars, cliVars, fanVars>>

ConvNext ==
    \/ \E mode \in AuraModeNum : ModeNum(mode)
    \/ \E mode \in AuraModeNum : ModeName(mode)
    \/ FromModeNum
    \/ FromModeName
    \/ \E n \in U8 : FromU8(n)
    \/ \E s \in StrInputs : FromStr(s)
    \/ \E mode \in AuraModeNum : EncodeMode(mode)


(***************************************************************************)
(* The animation scheduler, run_animation                                  *)
(*                                                                         *)
(* Time is in milliseconds.  The clock advances while the callback runs    *)
(* and while the thread sleeps.  The f32 factors are kept as exact         *)
(* fractions.  A frame buffer is FrameLen pixels long.                     *)
(***************************************************************************)

\* Bounds of the scheduler inputs.
MaxFrames == 3      \* an AnimeGif has 0..MaxFrames frames
MaxCount == 2       \* AnimTime::Count(0..MaxCount)
MaxDelay == 1       \* a frame's delay is 0..MaxDelay quanta
MaxTime == 2        \* AnimTime::Time(0..MaxTime quanta)
MaxFade == 1        \* Fade: fade_in, fade_out, show_for are 0..MaxFade quanta
MaxCbTime == 1      \* one callback invocation takes 0..MaxCbTime quanta
FrameLen == 2       \* pixels of a frame buffer

\* The safety margin added to a Fade run time; also the model's time quantum.
FADE_MARGIN_MS == 250
Quantum == FADE_MARGIN_MS

\* AnimTime
Count(n) == [tag |-> "Count", times |-> n]
Time(ms) == [tag |-> "Time", ms |-> ms]
Infinite == [tag |-> "Infinite"]
\* AnimTime::Fade(Fade::new(fade_in, show_for, fade_out)), show_for an Option
Fade(fi, show, fo) == [tag |-> "Fade", fade_in |-> fi, show_for |-> show, fade_out |-> fo]

Quanta(max) == {k * Quantum : k \in 0..max}

AnimTimes ==
    {Count(n) : n \in 0..MaxCount}
        \cup {Infinite}
        \cup {Time(ms) : ms \in Quanta(MaxTime)}
        \cup {Fade(fi, show, fo) : fi \in Quanta(MaxFade), fo \in Quanta(MaxFade),
                                   show \in {None} \cup {Some(t) : t \in Quanta(MaxFade)}}

\* The pixels of frame k: different from frame to frame, never all zero.
FrameData(k) == [i \in 1..FrameLen |-> (85 * k + 170 * (i - 1)) % 256]
\* An AnimeGif of f frames, all with the same delay.
Gif(f, delay) == [k \in 1..f |-> [data |-> FrameData(k), delay |-> delay]]
Gifs == {Gif(f, d) : f \in 0..MaxFrames, d \in Quanta(MaxDelay)}

\* The callback is not called more often than this in a run of the model.
CallCap == (MaxCount + 1) * (MaxFrames + 1)

RECURSIVE SumDelays(_, _)
SumDelays(fs, k) == IF k > Len(fs) THEN 0 ELSE fs[k].delay + SumDelays(fs, k + 1)

\* AnimeGif::total_frame_time
total_frame_time(fs, d) ==
    IF d.tag = "Count" THEN SumDelays(fs, 1) * d.times ELSE SumDelays(fs, 1)

\* Fade::total_fade_time
total_fade_time(time) == time.fade_in + time.fade_out

Frac(n, d) == [num |-> n, den |-> d]

\* step * t.as_secs_f32(), step being the rate 1/d: the factor t/d.  With
\* d = 0 the rate is infinite: the product is NaN for t = 0 and infinite
\* otherwise.
StepTimes(d, t) == Frac(t, d)

\* (pixel as f32 * factor) as u8: truncated, saturated to 0..255, NaN is 0.
ScalePixel(pixel, factor) ==
    IF factor.den = 0
    THEN IF factor.num = 0 \/ pixel = 0 THEN 0 ELSE 255
    ELSE Min(255, (pixel * factor.num) \div factor.den)

\* for pixel in output.data_mut() { *pixel = (*pixel as f32 * factor) as u8 }
ScaleAll(data, factor) == [i \in DOMAIN data |-> ScalePixel(data[i], factor)]

RunIdle ==
    /\ frames = <<>>
    /\ duration = Infinite
    /\ pc = "idle"
    /\ now = 0
    /\ idx = 0
    /\ frame_start = 0
    /\ count = 0
    /\ start = 0
    /\ timed = FALSE
    /\ run_time = 0
    /\ fade_in = 0
    /\ fade_out = 0
    /\ fade_in_step = 0
    /\ fade_out_step = 0
    /\ fade_in_accum = Frac(0, 1)
    /\ output = None
    /\ cb_ret = None
    /\ calls = 0
    /\ log = <<>>

\* run_animation is about to be called on some AnimeGif.
RunInit ==
    /\ frames \in Gifs
    /\ duration \in AnimTimes
    /\ pc = "call"
    /\ now = 0
    /\ idx = 0
    /\ frame_start = 0
    /\ count = 0
    /\ start = 0
    /\ timed = FALSE
    /\ run_time = 0
    /\ fade_in = 0
    /\ fade_out = 0
    /\ fade_in_step = 0
    /\ fade_out_step = 0
    /\ fade_in_accum = Frac(0, 1)
    /\ output = None
    /\ cb_ret = None
    /\ calls = 0
    /\ log = <<>>

IsFade == duration.tag = "Fade"

\* The run time without the 250 ms added to a Fade.
SetupRunTime_no_margin ==
    LET base == total_frame_time(frames, duration)
    IN  IF IsFade
        THEN IF duration.show_for.tag = "Some"
             THEN duration.show_for.val + total_fade_time(duration)
             ELSE base
        ELSE IF duration.tag = "Time" THEN duration.ms ELSE base

\* The run time computed before the loop (lines 196-208).
SetupRunTime ==
    LET base == total_frame_time(frames, duration)
    IN  IF IsFade
        THEN (IF duration.show_for.tag = "Some"
              THEN duration.show_for.val + total_fade_time(duration)
              ELSE base) + FADE_MARGIN_MS
        ELSE IF duration.tag = "Time" THEN duration.ms ELSE base

\* timed being set with the run time ignored.
IsTimed_always(d) == TRUE

\* Whether the run time is a wall-clock cutoff: timed = true (lines 204, 207).
IsTimed(d) == d.tag \in {"Fade", "Time"}

\* The fades never cut.
FadesTooLong_never(rt) == FALSE

\* Whether the fades are cut to half the run time (line 223).
FadesTooLong(rt) == IsFade /\ total_fade_time(duration) > rt

\* run_animation, from its entry to the head of the 'animation loop.
Setup ==
    /\ pc = "call"
    /\ count' = 0
    /\ start' = now
    /\ timed' = IsTimed(duration)
    /\ run_time' = SetupRunTime
    /\ fade_in' = IF ~IsFade THEN 0
                  ELSE IF FadesTooLong(run_time') THEN run_time' \div 2
                  ELSE duration.fade_in
    /\ fade_out' = IF ~IsFade THEN 0
                   ELSE IF FadesTooLong(run_time') THEN run_time' \div 2
                   ELSE duration.fade_out
    /\ fade_in_step' = fade_in'
    /\ fade_out_step' = fade_out'
    /\ fade_in_accum' = Frac(0, 1)
    /\ idx' = 0
    /\ pc' = "frame"
    /\ UNCHANGED <<runInputs, now, frame_start, output, cb_ret, calls, log>>
    /\ UNCHANGED <<codecVars, ledVars, convVars, cliVars, fanVars>>

InFadeIn(t) == IsFade /\ t <= start + fade_in
InFadeOut(t) ==
    IsFade /\ ~InFadeIn(t) /\ t > (start + run_time) - fade_out

\* The factor of the fade-out window (lines 245-250).
FadeOutAccum(t) ==
    IF run_time > t - start
    THEN StepTimes(fade_out_step, run_time - (t - start))
    ELSE Frac(0, 1)

\* The pixels scaled by the fade-in factor for every frame of every policy.
Faded_always_scaled(data, t) == ScaleAll(data, fade_in_accum)

\* The fade-in factor computed from the frame's own start time.
Faded_without_lag(data, t) ==
    IF InFadeIn(t) THEN ScaleAll(data, StepTimes(fade_in_step, t - start))
    ELSE IF InFadeOut(t) THEN ScaleAll(data, FadeOutAccum(t))
    ELSE data

\* The buffer handed to the callback for a frame started at time t.
Faded(data, t) ==
    IF InFadeIn(t) THEN ScaleAll(data, fade_in_accum)
    ELSE IF InFadeOut(t) THEN ScaleAll(data, FadeOutAccum(t))
    ELSE data

CallbackResults == {Ok(FALSE), Ok(TRUE), Err("callback")}

\* The callback's answer ignored.
ExitsEarly_never(r) == FALSE

\* Every answer but Ok(false) ends the run.
ExitsEarly_unless_ok_false(r) == r # Ok(FALSE)

\* matches!(callback(output), Ok(true))
ExitsEarly(r) == r = Ok(TRUE)

\* The pass counter compared with > instead of >=.
CountReached_one_late(c, times) == c > times

\* The pass counter compared with == instead of >=.
CountReached_exact(c, times) == c = times

\* count >= times
CountReached(c, times) == c >= times

\* One frame of the for loop, from Instant::now() to the return of the
\* callback (lines 235-261); the callback answers r after taking cb_time.
Transmit(r, cb_time) ==
    /\ pc = "frame"
    /\ idx < Len(frames)
    /\ calls < CallCap
    /\ frame_start' = now
    /\ LET frame == frames[idx + 1]
       IN  /\ output' = Faded(frame.data, frame_start')
           /\ fade_in_accum' = IF InFadeIn(frame_start')
                               THEN StepTimes(fade_in_step, frame_start' - start)
                               ELSE fade_in_accum
    /\ cb_ret' = r
    /\ calls' = calls + 1
    /\ log' = Append(log, <<"transmit", idx + 1>>)
    /\ now' = now + cb_time
    /\ pc' = IF ExitsEarly(r) THEN "done" ELSE "sent"
    /\ UNCHANGED <<runInputs, idx, count, start, timed, run_time, fade_in, fade_out,
                   fade_in_step, fade_out_step>>
    /\ UNCHANGED <<codecVars, ledVars, convVars, cliVars, fanVars>>

\* After a callback that did not ask to stop: the run-time test and the
\* sleep (lines 263-266).
AfterCallback ==
    /\ pc = "sent"
    /\ IF timed /\ now - start > run_time
       THEN /\ pc' = "done"
            /\ UNCHANGED <<now, idx, log>>
       ELSE /\ now' = now + frames[idx + 1].delay
            /\ log' = Append(log, <<"sleep", idx + 1>>)
            /\ idx' = idx + 1
            /\ pc' = "frame"
    /\ UNCHANGED <<runInputs, frame_start, runLocals, output, cb_ret, calls>>
    /\ UNCHANGED <<codecVars, ledVars, convVars, cliVars, fanVars>>

\* The end of a pass over the frames (lines 268-273).
PassEnd ==
    /\ pc = "frame"
    /\ idx = Len(frames)
    /\ IF duration.tag = "Count"
       THEN /\ count' = count + 1
            /\ pc' = IF CountReached(count', duration.times) THEN "done" ELSE "frame"
       ELSE /\ UNCHANGED <<count, pc>>
    /\ idx' = 0
    /\ UNCHANGED <<runInputs, now, frame_start, start, timed, run_time, fade_in,
                   fade_out, fade_in_step, fade_out_step, fade_in_accum,
                   output, cb_ret, calls, log>>
    /\ UNCHANGED <<codecVars, ledVars, convVars, cliVars, fanVars>>

RunNext ==
    \/ Setup
    \/ \E r \in CallbackResults, t \in Quanta(MaxCbTime) : Transmit(r, t)
    \/ AfterCallback
    \/ PassEnd

\* A frame whose callback returns after the clock has advanced.
TransmitTakingTime ==
    \E r \in CallbackResults, t \in Quanta(MaxCbTime) \ {0} : Transmit(r, t)

\* run_animation with a callback that always takes time.
RunNextLive ==
    \/ Setup
    \/ TransmitTakingTime
    \/ AfterCallback
    \/ PassEnd

(***************************************************************************)
(* Command-line gif playback: handle_anime, the Gif and PixelGif actions   *)
(* (asusctl/src/main.rs).  The two loops are the same code.                *)
(***************************************************************************)

\* Bound of the loop counts tried: 0..MaxLoops and the MaxLoops + 1 largest
\* 32-bit values.
MaxLoops == 2

\* A 32-bit unsigned value, kept as its two 16-bit halves.
U32(hi, lo) == [hi |-> hi, lo |-> lo]

\* `n as i32`: the same 32 bits read as two's complement.
AsI32(n) ==
    IF n.hi >= 32768
    THEN (n.hi - 65536) * 65536 + n.lo
    ELSE n.hi * 65536 + n.lo

LoopsInputs ==
    {U32(0, k) : k \in 0..MaxLoops} \cup {U32(65535, 65535 - k) : k \in 0..MaxLoops}

\* The model follows a playback for at most this many passes.
PassCap == MaxLoops + 2

CliIdle ==
    /\ gif_loops = U32(0, 1)
    /\ matrix = <<>>
    /\ loops = 0
    /\ cli_pc = "idle"
    /\ cli_idx = 0
    /\ passes = 0
    /\ writes = 0
    /\ cli_ret = None

\* The gif is decoded; let mut loops = gif.loops as i32;
CliInit ==
    /\ gif_loops \in LoopsInputs
    /\ matrix \in Gifs
    /\ loops = AsI32(gif_loops)
    /\ cli_pc = "for"
    /\ cli_idx = 0
    /\ passes = 0
    /\ writes = 0
    /\ cli_ret = None

\* The countdown stopping at every count that is not positive.
LoopsDone_not_positive(l) == l <= 0

\* The exit test also met by the -1 a count of 0 is turned into.
LoopsDone_or_minus_one(l) == l = 0 \/ l = -1

\* if loops == 0 { break; }
LoopsDone(l) == l = 0

\* proxy.write(frame.frame().clone())?; sleep(frame.delay());
WriteFrame(ok) ==
    /\ cli_pc = "for"
    /\ cli_idx < Len(matrix)
    /\ passes < PassCap
    /\ IF ok
       THEN /\ writes' = writes + 1
            /\ cli_idx' = cli_idx + 1
            /\ UNCHANGED <<cli_pc, cli_ret>>
       ELSE /\ cli_pc' = "done"
            /\ cli_ret' = Err("write")
            /\ UNCHANGED <<writes, cli_idx>>
    /\ UNCHANGED <<gif_loops, matrix, loops, passes>>
    /\ UNCHANGED <<codecVars, ledVars, convVars, runVars, fanVars>>

\* The end of a pass: the countdown and the exit test.
LoopEnd ==
    /\ cli_pc = "for"
    /\ cli_idx = Len(matrix)
    /\ passes < PassCap
    /\ passes' = passes + 1
    /\ loops' = IF loops >= 0 THEN loops - 1 ELSE loops
    /\ IF LoopsDone(loops')
       THEN cli_pc' = "done" /\ cli_ret' = Ok("unit")
       ELSE UNCHANGED <<cli_pc, cli_ret>>
    /\ cli_idx' = 0
    /\ UNCHANGED <<gif_loops, matrix, writes>>
    /\ UNCHANGED <<codecVars, ledVars, convVars, runVars, fanVars>>

CliNext ==
    \/ \E ok \in BOOLEAN : WriteFrame(ok)
    \/ LoopEnd

(***************************************************************************)
(* Fan curve profiles (rog-profiles/src/lib.rs)                            *)
(*                                                                         *)
(* An attribute name is the sequence of its characters.  The eight         *)
(* temperatures and eight pwm values of a curve are kept as one number,    *)
(* 0 for the all-zero curve.  A device access may fail.                    *)
(***************************************************************************)

\* Bounds of the fan curve model.
MaxPoints == 1      \* a curve's points are 0..MaxPoints
MaxCalls == 3       \* calls made on one FanCurveProfiles

PlatformPolicy == {"Balanced", "Performance", "Quiet"}
FanCurvePU == {"CPU", "GPU", "MID"}
Points == 0..MaxPoints

\* impl From<FanCurvePU> for char
FanCurvePU_into_char(pu) ==
    CASE pu = "CPU" -> "1"
      [] pu = "GPU" -> "2"
      [] pu = "MID" -> "3"

\* format!("pwm{pwm_num}_enable")
pwm_enable(pwm_num) == <<"p", "w", "m", pwm_num, "_", "e", "n", "a", "b", "l", "e">>

\* str::contains
contains(s, pat) ==
    \E i \in 1..(Len(s) - Len(pat) + 1) : SubSeq(s, i, i + Len(pat) - 1) = pat

\* The fans pushed for one fan of the array: one per attribute whose name
\* contains the fan's enable attribute name.
Pushes(names, fan) ==
    LET found == {a \in names : contains(a, pwm_enable(FanCurvePU_into_char(fan)))}
    IN  [i \in 1..Cardinality(found) |-> fan]

\* FanCurvePU::which_fans
which_fans(names) == Pushes(names, "CPU") \o Pushes(names, "GPU") \o Pushes(names, "MID")

\* The attribute sets of the devices tried: the hwmon "name" attribute and
\* the enable attributes of no fan, one, two or three fans, and a device with
\* a second attribute whose name contains pwm1_enable.
Devices ==
    LET name == <<"n", "a", "m", "e">>
    IN  { {name},
          {name, pwm_enable("1")},
          {name, pwm_enable("1"), pwm_enable("2")},
          {name, pwm_enable("1"), pwm_enable("2"), pwm_enable("3")},
          {name, pwm_enable("1"), pwm_enable("1") \o <<"d">>, pwm_enable("2")} }

\* CurveData::default()
CurveData_default == [fan |-> "CPU", pwm |-> 0, temp |-> 0, enabled |-> FALSE]

\* CurveData::read_from_device: the points are taken from the device.
CurveData_read_from_device(curve, device) ==
    [curve EXCEPT !.pwm = device[curve.fan], !.temp = device[curve.fan]]

\* CurveData::write_to_device: the device takes the points.
CurveData_write_to_device(curve, device) == [device EXCEPT ![curve.fan] = curve.pwm]

\* The curve the firmware shows for a fan set to automatic ("3").
DefaultCurve == MaxPoints

\* The policies the calls are made for.  The three arms of every match on
\* the policy are the same code; the list of the third policy is there to
\* be seen untouched.
PolicyInputs == {"Balanced", "Performance"}

\* The curves given to save_fan_curve.
CurveInputs ==
    {[fan |-> f, pwm |-> k, temp |-> k, enabled |-> e] :
        f \in FanCurvePU, k \in Points, e \in BOOLEAN}

\* FanCurveProfiles::default()
FanCurveProfiles_default == [p \in PlatformPolicy |-> <<>>]

Call(name, profile, a) == [name |-> name, profile |-> profile, arg |-> a]
Event(kind, target, value, ok) == [kind |-> kind, target |-> target, value |-> value, ok |-> ok]

FanIdle ==
    /\ attrs = {}
    /\ dev_curve = [f \in FanCurvePU |-> DefaultCurve]
    /\ profiles = FanCurveProfiles_default
    /\ before = FanCurveProfiles_default
    /\ fan_op = Call("none", "Balanced", None)
    /\ fan_ret = None
    /\ io = <<>>
    /\ fan_calls = MaxCalls
    /\ was_read = {}

\* A FanCurveProfiles just constructed, and some device.
FanInit ==
    /\ attrs \in Devices
    /\ dev_curve = [f \in FanCurvePU |-> DefaultCurve]
    /\ profiles = FanCurveProfiles_default
    /\ before = FanCurveProfiles_default
    /\ fan_op = Call("none", "Balanced", None)
    /\ fan_ret = None
    /\ io = <<>>
    /\ fan_calls = 0
    /\ was_read = {}

\* What every call does besides its own work.
Enter ==
    /\ fan_calls < MaxCalls
    /\ fan_calls' = fan_calls + 1
    /\ before' = profiles
    /\ UNCHANGED attrs
    /\ UNCHANGED <<codecVars, ledVars, convVars, runVars, cliVars>>

\* The curves read marked enabled.
ReadCurves_all_enabled(fans, device, rfail) ==
    [i \in 1..Len(fans) |->
        [fan |-> fans[i], pwm |-> device[fans[i]], temp |-> device[fans[i]],
         enabled |-> TRUE]]

\* The loop of read_from_dev_profile (lines 125-136): a fresh curve per fan,
\* filled from the device.  rfail is the read whose device access fails
\* (0: none): that curve stays as it was built.
ReadCurves(fans, device, rfail) ==
    [i \in 1..Len(fans) |->
        IF i = rfail
        THEN [CurveData_default EXCEPT !.fan = fans[i]]
        ELSE CurveData_read_from_device([CurveData_default EXCEPT !.fan = fans[i]],
                                        device)]

\* curve.read_from_device(device), once per fan: the loop goes on after a
\* read that failed.
ReadEvents(fans, rfail) ==
    [i \in 1..Len(fans) |-> Event("read", fans[i], None, i # rfail)]

\* FanCurveProfiles::read_from_dev_profile; found tells whether
\* find_fan_curve_node finds the node, rfail which curve read fails.
read_from_dev_profile(profile, found, rfail) ==
    /\ Enter
    /\ ~found => rfail = 0
    /\ \E fans \in {which_fans(attrs)} :
           /\ rfail \in 0..Len(fans)
           /\ fan_op' = Call("read_from_dev_profile", profile, None)
           /\ IF found
              THEN /\ profiles' = [profiles EXCEPT
                                      ![profile] = ReadCurves(fans, dev_curve, rfail)]
                   /\ io' = ReadEvents(fans, rfail)
                   /\ fan_ret' = Ok("unit")
                   /\ was_read' = was_read \cup {profile}
              ELSE /\ UNCHANGED <<profiles, was_read>>
                   /\ io' = <<>>
                   /\ fan_ret' = Err("NotSupported")
           /\ UNCHANGED dev_curve

\* The enable attributes set to "2" instead of "3".
EnableEvents_manual(fans, n, ok) ==
    [i \in 1..n |->
        Event("set", pwm_enable(FanCurvePU_into_char(fans[i])), "2", i < n \/ ok)]

\* device.set_attribute_value(&pwm, "3") for the first n fans, the last of
\* them failing when ok is false.
EnableEvents(fans, n, ok) ==
    [i \in 1..n |->
        Event("set", pwm_enable(FanCurvePU_into_char(fans[i])), "3", i < n \/ ok)]

\* The device after the first n fans were set to automatic.
AfterEnable(device, fans, n) ==
    [f \in FanCurvePU |->
        IF \E i \in 1..n : fans[i] = f THEN DefaultCurve ELSE device[f]]

\* FanCurveProfiles::set_active_curve_to_defaults; found and found2 tell
\* whether the node is found by the two calls of supported_fans, fail which
\* write of "3" fails (0: none), rfail which curve read of the re-read fails.
set_active_curve_to_defaults(profile, found, fail, found2, rfail) ==
    /\ Enter
    /\ ~found => fail = 0
    /\ (~found \/ fail # 0) => found2
    /\ (~found \/ fail # 0 \/ ~found2) => rfail = 0
    /\ \E fans \in {which_fans(attrs)} :
           /\ fail \in 0..Len(fans)
           /\ rfail \in 0..Len(fans)
           /\ fan_op' = Call("set_active_curve_to_defaults", profile, None)
           /\ IF ~found
              THEN /\ fan_ret' = Err("NotSupported")
                   /\ io' = <<>>
                   /\ UNCHANGED <<profiles, dev_curve, was_read>>
              ELSE IF fail # 0
              THEN /\ fan_ret' = Err("Io")
                   /\ io' = EnableEvents(fans, fail, FALSE)
                   /\ dev_curve' = AfterEnable(dev_curve, fans, fail - 1)
                   /\ UNCHANGED <<profiles, was_read>>
              ELSE /\ dev_curve' = AfterEnable(dev_curve, fans, Len(fans))
                   /\ IF found2
                      THEN /\ profiles' = [profiles EXCEPT
                                             ![profile] = ReadCurves(fans, dev_curve', rfail)]
                           /\ io' = EnableEvents(fans, Len(fans), TRUE)
                                        \o ReadEvents(fans, rfail)
                           /\ fan_ret' = Ok("unit")
                           /\ was_read' = was_read \cup {profile}
                      ELSE /\ UNCHANGED <<profiles, was_read>>
                           /\ io' = EnableEvents(fans, Len(fans), TRUE)
                           /\ fan_ret' = Err("NotSupported")

\* The device after the first n curves of a list were written to it.
RECURSIVE WriteCurves(_, _, _)
WriteCurves(device, fans, n) ==
    IF n = 0 THEN device
    ELSE CurveData_write_to_device(fans[n], WriteCurves(device, fans, n - 1))

IsEnabled(curve) == curve.enabled

\* The disabled curves skipped.
Written_enabled_only(fans) == SelectSeq(fans, IsEnabled)

\* for fan in fans: the curves write_profile_curve_to_platform goes through.
Written(fans) == fans

\* FanCurveProfiles::write_profile_curve_to_platform; fail tells which
\* write_to_device fails (0: none).
write_profile_curve_to_platform(profile, fail) ==
    LET fans == Written(profiles[profile])
        n == IF fail = 0 THEN Len(fans) ELSE fail
    IN
    /\ Enter
    /\ fail \in 0..Len(fans)
    /\ fan_op' = Call("write_profile_curve_to_platform", profile, None)
    /\ io' = [i \in 1..n |-> Event("write_curve", fans[i].fan, fans[i], i # fail)]
    /\ dev_curve' = WriteCurves(dev_curve, fans, IF fail = 0 THEN n ELSE n - 1)
    /\ fan_ret' = IF fail = 0 THEN Ok("unit") ELSE Err("Io")
    /\ UNCHANGED <<profiles, was_read>>

\* FanCurveProfiles::set_profile_curves_enabled
set_profile_curves_enabled(profile, enabled) ==
    /\ Enter
    /\ fan_op' = Call("set_profile_curves_enabled", profile, [enabled |-> enabled])
    /\ profiles' = [profiles EXCEPT ![profile] =
                        [i \in DOMAIN @ |-> [@[i] EXCEPT !.enabled = enabled]]]
    /\ fan_ret' = None
    /\ io' = <<>>
    /\ UNCHANGED <<dev_curve, was_read>>

\* The place of the last curve of a list with the given fan, 0 if none.
First_last(curves, fan) ==
    IF \E i \in DOMAIN curves : curves[i].fan = fan
    THEN CHOOSE i \in DOMAIN curves :
            /\ curves[i].fan = fan
            /\ \A j \in (i + 1)..Len(curves) : curves[j].fan # fan
    ELSE 0

\* The place of the first curve of a list with the given fan, 0 if none.
First(curves, fan) ==
    IF \E i \in DOMAIN curves : curves[i].fan = fan
    THEN CHOOSE i \in DOMAIN curves :
            /\ curves[i].fan = fan
            /\ \A j \in 1..(i - 1) : curves[j].fan # fan
    ELSE 0

\* FanCurveProfiles::set_profile_fan_curve_enabled
set_profile_fan_curve_enabled(profile, fan, enabled) ==
    LET i == First(profiles[profile], fan) IN
    /\ Enter
    /\ fan_op' = Call("set_profile_fan_curve_enabled", profile,
                      [fan |-> fan, enabled |-> enabled])
    /\ profiles' = IF i = 0 THEN profiles
                   ELSE [profiles EXCEPT ![profile][i].enabled = enabled]
    /\ fan_ret' = None
    /\ io' = <<>>
    /\ UNCHANGED <<dev_curve, was_read>>

\* FanCurveProfiles::get_fan_curve_for
get_fan_curve_for(name, pu) ==
    LET i == First(profiles[name], pu) IN
    /\ Enter
    /\ fan_op' = Call("get_fan_curve_for", name, [fan |-> pu])
    /\ fan_ret' = IF i = 0 THEN None ELSE Some(profiles[name][i])
    /\ io' = <<>>
    /\ UNCHANGED <<profiles, dev_curve, was_read>>

\* save_fan_curve adding the curve when the list has none for its fan.
save_fan_curve_or_push(curve, profile) ==
    LET i == First(profiles[profile], curve.fan) IN
    /\ Enter
    /\ fan_op' = Call("save_fan_curve", profile, curve)
    /\ profiles' = IF i = 0 THEN [profiles EXCEPT ![profile] = Append(@, curve)]
                   ELSE [profiles EXCEPT ![profile][i] = curve]
    /\ fan_ret' = Ok("unit")
    /\ io' = <<>>
    /\ UNCHANGED <<dev_curve, was_read>>

\* FanCurveProfiles::save_fan_curve
save_fan_curve(curve, profile) ==
    LET i == First(profiles[profile], curve.fan) IN
    /\ Enter
    /\ fan_op' = Call("save_fan_curve", profile, curve)
    /\ profiles' = IF i = 0 THEN profiles
                   ELSE [profiles EXCEPT ![profile][i] = curve]
    /\ fan_ret' = Ok("unit")
    /\ io' = <<>>
    /\ UNCHANGED <<dev_curve, was_read>>

FanNext ==
    \/ \E profile \in PolicyInputs, found \in BOOLEAN,
         rfail \in 0..Cardinality(attrs) :
            read_from_dev_profile(profile, found, rfail)
    \/ \E profile \in PolicyInputs, found \in BOOLEAN, found2 \in BOOLEAN,
         fail \in 0..Cardinality(attrs), rfail \in 0..Cardinality(attrs) :
            set_active_curve_to_defaults(profile, found, fail, found2, rfail)
    \/ \E profile \in PolicyInputs : \E fail \in 0..Len(profiles[profile]) :
            write_profile_curve_to_platform(profile, fail)
    \/ \E profile \in PolicyInputs, enabled \in BOOLEAN :
            set_profile_curves_enabled(profile, enabled)
    \/ \E profile \in PolicyInputs, fan \in FanCurvePU, enabled \in BOOLEAN :
            set_profile_fan_curve_enabled(profile, fan, enabled)
    \/ \E name \in PolicyInputs, pu \in FanCurvePU : get_fan_curve_for(name, pu)
    \/ \E curve \in CurveInputs, profile \in PolicyInputs : save_fan_curve(curve, profile)

(***************************************************************************)
(* Specifications, one per component                                       *)
(***************************************************************************)

InitCodec == CodecInit /\ LedIdle /\ ConvIdle /\ RunIdle /\ CliIdle /\ FanIdle
SpecCodec == InitCodec /\ [][CodecNext]_vars

InitLed == LedInit /\ CodecIdle /\ ConvIdle /\ RunIdle /\ CliIdle /\ FanIdle
SpecLed == InitLed /\ [][LedNext]_vars

InitConv == ConvInit /\ CodecIdle /\ LedIdle /\ RunIdle /\ CliIdle /\ FanIdle
SpecConv == InitConv /\ [][ConvNext]_vars

InitRun == RunInit /\ CodecIdle /\ LedIdle /\ ConvIdle /\ CliIdle /\ FanIdle
SpecRun == InitRun /\ [][RunNext]_vars

InitCli == CliInit /\ CodecIdle /\ LedIdle /\ ConvIdle /\ RunIdle /\ FanIdle
SpecCli == InitCli /\ [][CliNext]_vars

InitFan == FanInit /\ CodecIdle /\ LedIdle /\ ConvIdle /\ RunIdle /\ CliIdle
SpecFan == InitFan /\ [][FanNext]_vars

\* The scheduler's thread keeps running: the loop is blocking, nothing
\* preempts it for ever, and every callback returns.
SpecRunLive == InitRun /\ [][RunNextLive]_vars /\ WF_vars(RunNextLive)

(***************************************************************************)
(* Properties of the packet codec                                          *)
(***************************************************************************)

Prefixes == <<USB_PREFIX1, USB_PREFIX2, USB_PREFIX3>>

\* Bytes [7,634) of a packet, as a sequence.
Payload(packet) == [k \in 1..(BLOCK_END - BLOCK_START) |-> packet[BLOCK_START + k - 1]]

RECURSIVE ConcatPayloads(_, _)
ConcatPayloads(packets, k) ==
    IF k > Len(packets) THEN <<>>
    ELSE Payload(packets[k]) \o ConcatPayloads(packets, k + 1)

Encoded == op = "try_from"
ValidArg == Encoded /\ Len(arg.data) = data_length(arg.anime)

\* C1: encoding a buffer whose length is data_length() of its variant gives
\* exactly 2 packets for GA401 and exactly 3 for GA402, GU604 and Unknown,
\* and packet slot i starts with its fixed 7-byte prefix.
C1_PacketCountAndPrefixes ==
    ValidArg =>
        /\ ret.tag = "Ok"
        /\ Len(ret.val) = (IF arg.anime = "GA401" THEN 2 ELSE 3)
        /\ \A i \in 1..Len(ret.val) : \A j \in 0..6 :
                ret.val[i][j] = Prefixes[i][j + 1]

C1_Witness ==
    /\ ValidArg
    /\ arg.anime = "GU604"
    /\ ret.tag = "Ok"
    /\ Len(ret.val) = 3
    /\ ret.val[3][3] = 231

\* C2: for every variant and every valid buffer, bytes [7,634) of the
\* packets, concatenated in packet order, are the buffer's bytes: nothing is
\* dropped, duplicated or reordered, and data_length() bytes are carried.
C2_PayloadRoundTrip ==
    ValidArg =>
        /\ ret.tag = "Ok"
        /\ ConcatPayloads(ret.val, 1) = arg.data
        /\ Len(ConcatPayloads(ret.val, 1)) = data_length(arg.anime)

\* A buffer that is not all-zero and differs from pane to pane.
C2_Witness ==
    /\ ValidArg
    /\ ret.tag = "Ok"
    /\ arg.data[1] # arg.data[PANE_LEN + 1]
    /\ ret.val[2][BLOCK_START] = arg.data[PANE_LEN + 1]
    /\ ret.val[2][BLOCK_START] # 0

DataLengthOf(a) == IF a = "GA401" THEN 1254 ELSE 1881

\* C3: from_vec and the encoder fail with DataBufferLength if and only if
\* the byte length differs from 1254 (GA401) or 1881 (every other variant),
\* in particular one byte short and one byte long.
C3_LengthErrorIff ==
    /\ op = "from_vec" =>
          /\ ret.tag \in {"Ok", "Err"}
          /\ (ret = Err("DataBufferLength")) <=> (Len(vec) # DataLengthOf(anime))
    /\ op = "try_from" =>
          /\ ret.tag \in {"Ok", "Err"}
          /\ (ret = Err("DataBufferLength")) <=> (Len(arg.data) # DataLengthOf(arg.anime))

C3_Witness ==
    /\ op = "try_from"
    /\ arg.anime = "GA401"
    /\ Len(arg.data) = 1255
    /\ ret = Err("DataBufferLength")


(***************************************************************************)
(* Properties of the LED command encoder                                   *)
(***************************************************************************)

LedEncoded == led_op = "encode"

\* C4: for every AuraEffect, applicable parameters or not, the 17-byte
\* command is 0x5d, 0xb3, zone code, mode code, colour1 R G B, speed code,
\* direction code, 0, colour2 R G B, 0, 0, 0, 0.
C4_LedLayout ==
    LedEncoded =>
        /\ DOMAIN led_ret = 0..16
        /\ led_ret[0] = 93
        /\ led_ret[1] = 179
        /\ led_ret[2] = AuraZone_as_u8(st.zone)
        /\ led_ret[3] = AuraModeNum_as_u8(st.mode)
        /\ led_ret[4] = st.colour1.r
        /\ led_ret[5] = st.colour1.g
        /\ led_ret[6] = st.colour1.b
        /\ led_ret[7] = Speed_as_u8(st.speed)
        /\ led_ret[8] = Direction_as_u8(st.direction)
        /\ led_ret[9] = 0
        /\ led_ret[10] = st.colour2.r
        /\ led_ret[11] = st.colour2.g
        /\ led_ret[12] = st.colour2.b
        /\ \A i \in 13..16 : led_ret[i] = 0

\* A Static effect, which takes neither a speed, a direction nor a second
\* colour, encoded with all three set.
C4_Witness ==
    /\ LedEncoded
    /\ st.mode = "Static"
    /\ ~allowed_parameters(st.mode).speed
    /\ ~allowed_parameters(st.mode).direction
    /\ ~allowed_parameters(st.mode).colour2
    /\ st.speed = "High" /\ led_ret[7] = 245
    /\ st.direction = "Down" /\ led_ret[8] = 3
    /\ st.colour2 = ColourOf(1) /\ led_ret[11] = 17

DiffersOnlyIn(a, b, field) ==
    /\ a[field] # b[field]
    /\ \A f \in DOMAIN a : f # field => a[f] = b[f]

\* C5: the encoder is deterministic and field-local: encoding an equal
\* effect again gives the same 17 bytes, an effect that differs only in zone
\* gives bytes that differ at offset 2 and nowhere else, one that differs
\* only in mode gives bytes that differ at offset 3 and nowhere else.
C5_FieldLocal ==
    [][(LedEncoded /\ LedEncoded') =>
         /\ (st' = st => led_ret' = led_ret)
         /\ (DiffersOnlyIn(st, st', "zone") =>
                \A i \in 0..16 : (led_ret'[i] # led_ret[i]) <=> (i = 2))
         /\ (DiffersOnlyIn(st, st', "mode") =>
                \A i \in 0..16 : (led_ret'[i] # led_ret[i]) <=> (i = 3))]_vars

\* The effect of tests::check_led_static_zone_packet after its zone and then
\* its mode were changed.
C5_Witness ==
    /\ LedEncoded
    /\ st = [AuraEffect_default EXCEPT !.zone = "BarRight", !.mode = "Rainbow"]
    /\ led_ret[2] = 7
    /\ led_ret[3] = 3

WireSpeed(speed) ==
    CASE speed = "Low" -> 225
      [] speed = "Med" -> 235
      [] speed = "High" -> 245

\* C8 as stated: Low, Med and High are 0xe1, 0xeb and 0xf5 both as byte 7
\* of the encoded command and through From<Speed> for u8.
C8_Original ==
    /\ LedEncoded => led_ret[7] = WireSpeed(st.speed)
    /\ led_op = "speed_into_u8" => led_ret = WireSpeed(st.speed)

\* C8, amended: byte 7 of the encoded command is 0xe1, 0xeb, 0xf5 for Low,
\* Med, High; From<Speed> for u8 gives 0, 1, 2 instead, which is never the
\* wire byte.
C8_SpeedBytes ==
    /\ LedEncoded => led_ret[7] = WireSpeed(st.speed)
    /\ led_op = "speed_into_u8" =>
          /\ led_ret = (CASE st.speed = "Low" -> 0
                          [] st.speed = "Med" -> 1
                          [] st.speed = "High" -> 2)
          /\ led_ret # WireSpeed(st.speed)

C8_Witness ==
    /\ led_op = "speed_into_u8"
    /\ st.speed = "High"
    /\ led_ret = 2

(***************************************************************************)
(* Properties of the AuraModeNum conversions                               *)
(***************************************************************************)

\* C6: for each of the 12 modes, mode -> code -> mode and mode -> display
\* name -> mode are the identity, and distinct modes have distinct codes
\* and distinct display names.
C6_ModeBijections ==
    /\ (conv.op \in {"from_u8", "from_str"} /\ conv.of.tag = "Some") =>
          conv.out = conv.of.val
    /\ Cardinality(AuraModeNum) = 12
    /\ \A m1, m2 \in AuraModeNum :
          m1 # m2 => /\ AuraModeNum_as_u8(m1) # AuraModeNum_as_u8(m2)
                     /\ AuraModeNum_into_str(m1) # AuraModeNum_into_str(m2)

\* Star, whose display name "Stars" is not its identifier, back from its name.
C6_Witness ==
    /\ conv.op = "from_str"
    /\ conv.of = Some("Star")
    /\ conv.arg = "Stars"
    /\ conv.out = "Star"

\* C7 as stated: code 9 is never produced (no mode has it, byte 3 of an
\* encoded effect is never 9) and never accepted (9 converts to no mode).
C7_Original ==
    /\ conv.op = "mode_num" => conv.out # 9
    /\ conv.op = "encode" => conv.out[3] # 9
    /\ (conv.op = "from_u8" /\ conv.arg = 9) => conv.out \notin AuraModeNum

\* C7, amended: code 9 is never produced; the number 9 is accepted by the
\* infallible From<u8> and gives Static, the mode every undefined code
\* gives, whose own code is 0.
C7_Code9 ==
    /\ conv.op = "mode_num" => conv.out # 9
    /\ conv.op = "encode" => conv.out[3] # 9
    /\ (conv.op = "from_u8" /\ conv.arg \notin {AuraModeNum_as_u8(m) : m \in AuraModeNum}) =>
          /\ conv.out = "Static"
          /\ AuraModeNum_as_u8(conv.out) = 0

C7_Witness ==
    /\ conv.op = "from_u8"
    /\ conv.arg = 9
    /\ conv.out = "Static"


(***************************************************************************)
(* Properties of run_animation                                             *)
(***************************************************************************)

IsTransmit(e) == e[1] = "transmit"
\* The frames handed to the callback, in order, by their place in the gif.
Transmitted == [k \in 1..Len(SelectSeq(log, IsTransmit)) |-> SelectSeq(log, IsTransmit)[k][2]]

Cancelled == cb_ret = Ok(TRUE)

\* C9: under Count(n), n >= 1, on f >= 1 frames, with a callback that never
\* returns Ok(true), run_animation returns after exactly n*f invocations,
\* made in frame order within each pass, and never makes more.
C9_CountInvocations ==
    (duration.tag = "Count" /\ duration.times >= 1 /\ Len(frames) >= 1 /\ ~Cancelled) =>
        LET n == duration.times
            f == Len(frames)
        IN  /\ calls <= n * f
            /\ Len(Transmitted) = calls
            /\ \A k \in 1..calls : Transmitted[k] = ((k - 1) % f) + 1
            /\ pc = "done" => calls = n * f

\* Count(2) on 3 frames: returned after 6 invocations.
C9_Witness ==
    /\ pc = "done"
    /\ duration = Count(2)
    /\ Len(frames) = 3
    /\ ~Cancelled
    /\ calls = 6
    /\ Transmitted = <<1, 2, 3, 1, 2, 3>>

\* C10: under every duration policy, when the callback returns Ok(true) on
\* its k-th invocation run_animation has returned: the k invocations are all
\* there are, the cancelling call is the last event (no sleep, no frame
\* after it) and nothing more can happen.
C10_Cancellation ==
    Cancelled =>
        /\ pc = "done"
        /\ Len(Transmitted) = calls
        /\ IsTransmit(log[Len(log)])
        /\ ~ENABLED RunNext

\* A Fade animation cancelled by the second invocation.
C10_Witness ==
    /\ Cancelled
    /\ duration.tag = "Fade"
    /\ calls = 2
    /\ Len(log) = 3

TimedPolicy == duration.tag \in {"Time", "Fade"}

\* C11 as stated: under the Time and Fade policies run_animation eventually
\* returns for every sequence, of any number of frames including none, when
\* every callback returns and the clock advances.
C11_Original == TimedPolicy ~> (pc = "done")

\* C11 for sequences of at least one frame: run_animation eventually
\* returns, and it returns from the run-time test as soon as a callback has
\* returned with more than run_time elapsed, wherever in the pass that is.
C11_TimedReturns ==
    /\ (TimedPolicy /\ Len(frames) >= 1) ~> (pc = "done")
    /\ [][(pc = "sent" /\ TimedPolicy /\ now - start > run_time) => pc' = "done"]_vars

\* The empty sequence under a timed policy: the for loop has no frame, the
\* run-time test inside it is never made, and the outer loop repeats with
\* nothing changing.
C11_Witness ==
    /\ TimedPolicy
    /\ frames = <<>>
    /\ pc = "frame"
    /\ timed
    /\ ENABLED PassEnd
    /\ ~ENABLED <<RunNextLive>>_vars

\* C12: under the Count and Infinite policies the elapsed time never ends
\* the loop: with Infinite, run_animation has returned only if the callback
\* returned Ok(true); with Count, only if the callback returned Ok(true) or
\* the configured number of full passes has completed.
C12_NoTimeout ==
    /\ (duration.tag \in {"Count", "Infinite"} /\ pc = "sent") =>
          (~timed /\ ENABLED AfterCallback)
    /\ (pc = "done" /\ duration.tag = "Infinite") => Cancelled
    /\ (pc = "done" /\ duration.tag = "Count" /\ ~Cancelled) =>
          /\ count >= duration.times
          /\ calls = count * Len(frames)
          /\ idx = 0

\* An Infinite animation still running, in its second pass, with more than
\* the run time elapsed.
C12_Witness ==
    /\ duration = Infinite
    /\ pc = "frame"
    /\ Len(frames) = 1
    /\ calls = 2
    /\ ~Cancelled
    /\ now - start > run_time

SetUp == pc # "idle" /\ pc # "call"

\* show_for of a Fade, an absent one counted as no time.
ShowFor == IF duration.show_for.tag = "Some" THEN duration.show_for.val ELSE 0

\* C13 as stated: the run time is ms for Time(ms), and for every Fade it is
\* show_for + fade_in + fade_out + 250 ms.
C13_Original ==
    SetUp =>
        /\ duration.tag = "Time" => run_time = duration.ms
        /\ IsFade => run_time = ShowFor + duration.fade_in + duration.fade_out + 250

\* C13, amended: the run time is ms for Time(ms); for a Fade that has a
\* show_for it is show_for + fade_in + fade_out + 250 ms; for a Fade without
\* one it is the sum of the frames' delays + 250 ms, whatever the fades are.
C13_RunTime ==
    SetUp =>
        /\ duration.tag = "Time" => run_time = duration.ms
        /\ (IsFade /\ duration.show_for.tag = "Some") =>
              run_time = duration.show_for.val + duration.fade_in + duration.fade_out + 250
        /\ (IsFade /\ duration.show_for.tag = "None") =>
              run_time = SumDelays(frames, 1) + 250

\* A Fade without show_for whose frames last longer than its two fades.
C13_Witness ==
    /\ SetUp
    /\ IsFade
    /\ duration.show_for = None
    /\ duration.fade_in + duration.fade_out = 250
    /\ SumDelays(frames, 1) = 750
    /\ run_time = 1000

\* C14: under the Fade policy, if fade_in + fade_out of the configuration
\* exceeds the computed run time then fade_in and fade_out are both
\* run_time / 2; so before the first frame is processed, and from then on,
\* fade_in + fade_out <= run_time for every Fade configuration.
C14_FadeClamp ==
    (SetUp /\ IsFade) =>
        /\ (duration.fade_in + duration.fade_out > run_time) =>
              (fade_in = run_time \div 2 /\ fade_out = run_time \div 2)
        /\ (duration.fade_in + duration.fade_out <= run_time) =>
              (fade_in = duration.fade_in /\ fade_out = duration.fade_out)
        /\ fade_in + fade_out <= run_time

\* A Fade without show_for on frames without delay: the run time is the
\* 250 ms margin, the fades ask for 500 ms and are cut to 125 ms each.
C14_Witness ==
    /\ pc = "frame"
    /\ calls = 0
    /\ IsFade
    /\ duration.fade_in + duration.fade_out = 500
    /\ run_time = 250
    /\ fade_in = 125
    /\ fade_out = 125

\* The callback has just been given frame idx + 1, started at frame_start.
JustSent == pc = "sent" \/ (pc = "done" /\ Cancelled)

\* The frame was started after the fade-in window and not after the start
\* of the fade-out window.
BetweenWindows ==
    /\ ~(frame_start <= start + fade_in)
    /\ ~(frame_start > start + run_time - fade_out)

\* C15: the callback gets an unmodified copy of the frame's buffer unless
\* the policy is Fade and the frame's start lies in the fade-in window
\* (frame_start <= start + fade_in) or in the fade-out window (frame_start >
\* start + run_time - fade_out): under Count, Time and Infinite, and for
\* Fade frames between the windows, every byte handed over is the stored one.
C15_Unmodified ==
    (JustSent /\ (~IsFade \/ BetweenWindows)) =>
        /\ output = frames[idx + 1].data
        /\ \A i \in 1..FrameLen : output[i] = FrameData(idx + 1)[i]

\* A Fade frame between the two windows, handed over as stored, after an
\* earlier frame of the same run was dimmed.
C15_Witness ==
    /\ JustSent
    /\ IsFade
    /\ fade_in > 0
    /\ fade_out > 0
    /\ BetweenWindows
    /\ calls >= 2
    /\ output = frames[idx + 1].data

(***************************************************************************)
(* Properties of the command-line gif playback                             *)
(***************************************************************************)

\* C16: the countdown starts at the configured count and goes down by one
\* after each full pass, so a count n > 0 gives exactly n full passes before
\* the loop stops; a negative initial count loops for ever: the countdown
\* stays where it is and the loop never stops by count.
C16_Countdown ==
    /\ (cli_pc # "idle" /\ AsI32(gif_loops) > 0) =>
          /\ loops = AsI32(gif_loops) - passes
          /\ passes <= AsI32(gif_loops)
          /\ cli_ret = Ok("unit") =>
                /\ passes = AsI32(gif_loops)
                /\ writes = passes * Len(matrix)
          /\ (cli_pc = "for" /\ passes < PassCap) => ENABLED CliNext
    /\ (cli_pc # "idle" /\ AsI32(gif_loops) < 0) =>
          /\ loops = AsI32(gif_loops)
          /\ cli_ret # Ok("unit")
          /\ cli_pc = "done" => cli_ret = Err("write")
          /\ (cli_pc = "for" /\ passes < PassCap) => ENABLED CliNext

\* A count of 2 on 3 frames: returned after 2 passes and 6 writes.
C16_Witness ==
    /\ gif_loops = U32(0, 2)
    /\ Len(matrix) = 3
    /\ cli_pc = "done"
    /\ cli_ret = Ok("unit")
    /\ passes = 2
    /\ writes = 6
    /\ loops = 0

(***************************************************************************)
(* Properties of the fan curve profiles                                    *)
(***************************************************************************)

Called(name) == fan_op.name = name
\* The curve list of the policy the last call was given.
List == profiles[fan_op.profile]
OthersUnchanged ==
    \A p \in PlatformPolicy : p # fan_op.profile => profiles[p] = before[p]

\* The fan units the device supports: those whose enable attribute name
\* occurs in the name of an attribute.
SupportedFans ==
    {f \in FanCurvePU : \E a \in attrs : contains(a, pwm_enable(FanCurvePU_into_char(f)))}

\* A curve just built for its fan and filled from the device.
Fresh(curve) ==
    curve = CurveData_read_from_device([CurveData_default EXCEPT !.fan = curve.fan],
                                       dev_curve)
\* A curve just built for its fan, whose read from the device failed.
Unread(curve) == curve = [CurveData_default EXCEPT !.fan = curve.fan]

\* C17 as stated: a successful read_from_device(policy, device) leaves in
\* the policy's list exactly one freshly read curve per supported fan unit
\* and leaves the other two lists unchanged; a failed one (NotSupported)
\* leaves all three lists unchanged.
C17_Original ==
    Called("read_from_dev_profile") =>
        /\ fan_ret = Ok("unit") =>
              /\ \A i \in DOMAIN List : List[i].fan \in SupportedFans /\ Fresh(List[i])
              /\ \A f \in SupportedFans :
                    Cardinality({i \in DOMAIN List : List[i].fan = f}) = 1
              /\ OthersUnchanged
        /\ fan_ret # Ok("unit") => (fan_ret = Err("NotSupported") /\ profiles = before)

\* C17 for what the code does: the list is replaced by one freshly read
\* curve per fan the probe reports, in the probe's order, a fan being
\* reported once per attribute whose name contains its enable attribute
\* name, and a curve whose read failed staying as built; the other lists
\* are unchanged, and nothing changes when the probe fails.
C17_ReadReplaces ==
    Called("read_from_dev_profile") =>
        /\ fan_ret = Ok("unit") =>
              /\ Len(List) = Len(which_fans(attrs))
              /\ Len(io) = Len(List)
              /\ \A i \in DOMAIN List :
                    /\ List[i].fan = which_fans(attrs)[i]
                    /\ io[i].kind = "read"
                    /\ IF io[i].ok THEN Fresh(List[i]) ELSE Unread(List[i])
              /\ OthersUnchanged
        /\ fan_ret # Ok("unit") => (fan_ret = Err("NotSupported") /\ profiles = before)

\* A device with two attributes whose names contain pwm1_enable, read: the
\* list holds two curves for the CPU fan.
C17_Witness ==
    /\ Called("read_from_dev_profile")
    /\ fan_ret = Ok("unit")
    /\ Len(List) = 3
    /\ List[1].fan = "CPU"
    /\ List[2].fan = "CPU"
    /\ Cardinality(SupportedFans) = 2

IsSet(e) == e.kind = "set"
IsRead(e) == e.kind = "read"
\* The enable attributes set and the curves read by the last call, in order.
Sets == SelectSeq(io, IsSet)
Reads == SelectSeq(io, IsRead)

\* C18: reset_to_defaults(policy, device) writes "3" to the pwm{N}_enable
\* attribute of every supported fan and re-reads the policy's curves only
\* after all these writes succeeded; if an enable write fails the error is
\* returned, nothing is re-read and the curves of every policy are unchanged.
C18_Reset ==
    Called("set_active_curve_to_defaults") =>
        /\ io = Sets \o Reads
        /\ \A i \in DOMAIN Sets :
              /\ Sets[i].value = "3"
              /\ \E f \in SupportedFans : Sets[i].target = pwm_enable(FanCurvePU_into_char(f))
        /\ (fan_ret = Ok("unit") \/ Reads # <<>>) =>
              /\ \A i \in DOMAIN Sets : Sets[i].ok
              /\ \A f \in SupportedFans :
                    \E i \in DOMAIN Sets : Sets[i].target = pwm_enable(FanCurvePU_into_char(f))
        /\ fan_ret = Ok("unit") =>
              /\ Len(Reads) = Len(List)
              /\ \A i \in DOMAIN List : Reads[i].target = List[i].fan
              /\ \A f \in SupportedFans : \E i \in DOMAIN List : List[i].fan = f
              /\ OthersUnchanged
        /\ (\E i \in DOMAIN Sets : ~Sets[i].ok) =>
              /\ fan_ret = Err("Io")
              /\ ~Sets[Len(Sets)].ok
              /\ Reads = <<>>
              /\ profiles = before
        /\ fan_ret # Ok("unit") => (fan_ret.tag = "Err" /\ profiles = before)

\* A reset on a store that holds curves, on a device with three fans, whose
\* second enable write fails.
C18_Witness ==
    /\ Called("set_active_curve_to_defaults")
    /\ Cardinality(SupportedFans) = 3
    /\ Len(Sets) = 2
    /\ Sets[1].ok
    /\ ~Sets[2].ok
    /\ fan_ret = Err("Io")
    /\ Len(before[fan_op.profile]) = 3
    /\ profiles = before

\* C19: after a successful reset_to_defaults(policy) the enabled flags of
\* the policy's curves are not those from before: every curve is a freshly
\* built entry filled from the device, its enabled flag is the one of a
\* default curve whatever the flag of the fan's curve was before the reset.
C19_FlagsNotKept ==
    (Called("set_active_curve_to_defaults") /\ fan_ret = Ok("unit")) =>
        \A i \in DOMAIN List :
            /\ IF Reads[i].ok THEN Fresh(List[i]) ELSE Unread(List[i])
            /\ List[i].enabled = CurveData_default.enabled

\* The CPU curve was enabled before the reset and is not after it.
C19_Witness ==
    /\ Called("set_active_curve_to_defaults")
    /\ fan_ret = Ok("unit")
    /\ before[fan_op.profile] # <<>>
    /\ before[fan_op.profile][1].fan = "CPU"
    /\ before[fan_op.profile][1].enabled
    /\ List[1].fan = "CPU"
    /\ ~List[1].enabled

\* C20 as stated: write_to_device(policy, device) issues a device write for
\* every curve of the policy's list, in list order, whatever its enabled
\* flag, and none for the curves of the other policies.
C20_Original ==
    Called("write_profile_curve_to_platform") =>
        /\ Len(io) = Len(List)
        /\ \A i \in DOMAIN io : io[i].kind = "write_curve" /\ io[i].value = List[i]

\* C20, amended: the writes issued are those of the list's curves in list
\* order, whatever their enabled flags, up to and including the first write
\* that fails; when no write fails every curve of the list is written and Ok
\* is returned; no other write is issued.
C20_WriteAll ==
    Called("write_profile_curve_to_platform") =>
        /\ Len(io) <= Len(List)
        /\ \A i \in DOMAIN io :
              /\ io[i].kind = "write_curve"
              /\ io[i].value = List[i]
              /\ io[i].target = List[i].fan
              /\ io[i].ok = (i < Len(io) \/ fan_ret = Ok("unit"))
        /\ fan_ret = Ok("unit") => Len(io) = Len(List)
        /\ fan_ret # Ok("unit") => (fan_ret = Err("Io") /\ io # <<>>)
        /\ profiles = before

\* A list with a disabled curve followed by an enabled one, both written.
C20_Witness ==
    /\ Called("write_profile_curve_to_platform")
    /\ fan_ret = Ok("unit")
    /\ Len(List) >= 2
    /\ ~List[1].enabled
    /\ List[2].enabled
    /\ Len(io) = Len(List)
    /\ io[1].value = List[1]
    /\ io[1].ok

\* C21 as stated: write_to_device never issues a device write for a curve
\* whose enabled flag is false.
C21_Original ==
    Called("write_profile_curve_to_platform") =>
        \A i \in DOMAIN io : io[i].value.enabled

\* write_to_device called with success on a curve that is not enabled.
C21_Witness ==
    /\ Called("write_profile_curve_to_platform")
    /\ \E i \in DOMAIN io :
          /\ io[i].kind = "write_curve"
          /\ ~io[i].value.enabled
          /\ io[i].ok

\* The list of the last call's policy before the call.
Old == before[fan_op.profile]
\* Entry j is the one a call for the fan acts on: the first with that tag.
Target(curves, fan, j) ==
    /\ curves[j].fan = fan
    /\ \A k \in 1..(j - 1) : curves[k].fan # fan

\* C22: set_enabled changes only enabled flags.  With a fan given it sets
\* the flag of the (first) curve of the policy with that fan tag and changes
\* no other entry, no other policy and no curve points; when the policy has
\* no curve for the fan the store is unchanged.  With no fan given it sets
\* the flag of every curve of the policy and nothing in the other policies.
\* Neither touches the device.
C22_SetEnabled ==
    /\ Called("set_profile_fan_curve_enabled") =>
          /\ OthersUnchanged
          /\ Len(List) = Len(Old)
          /\ \A j \in DOMAIN Old :
                List[j] = IF Target(Old, fan_op.arg.fan, j)
                          THEN [Old[j] EXCEPT !.enabled = fan_op.arg.enabled]
                          ELSE Old[j]
          /\ (\A j \in DOMAIN Old : Old[j].fan # fan_op.arg.fan) => profiles = before
          /\ io = <<>>
    /\ Called("set_profile_curves_enabled") =>
          /\ OthersUnchanged
          /\ Len(List) = Len(Old)
          /\ \A j \in DOMAIN Old :
                List[j] = [Old[j] EXCEPT !.enabled = fan_op.arg.enabled]
          /\ io = <<>>

\* The flag of the GPU curve of a list of three set, the flags of the two
\* other curves staying as they were, one of them different.
C22_Witness ==
    /\ Called("set_profile_fan_curve_enabled")
    /\ fan_op.arg.fan = "GPU"
    /\ Len(List) = 3
    /\ \E j \in DOMAIN List :
          /\ List[j].fan = "GPU"
          /\ List[j].enabled # Old[j].enabled
          /\ \E k \in DOMAIN List : k # j /\ List[k].enabled # List[j].enabled

\* C23: save_curve(curve, policy) replaces by fan tag.  If the policy's
\* list holds a curve with curve.fan, the (first) such entry becomes the
\* given curve, every other entry and policy is unchanged, and a
\* get_curve(policy, curve.fan) made next returns the given curve; if no
\* entry has the tag the store is unchanged.  The list length never changes,
\* the call returns Ok and the device is not touched.
C23_SaveReplaces ==
    /\ [](Called("save_fan_curve") =>
            /\ fan_ret = Ok("unit")
            /\ OthersUnchanged
            /\ Len(List) = Len(Old)
            /\ \A j \in DOMAIN Old :
                  List[j] = IF Target(Old, fan_op.arg.fan, j) THEN fan_op.arg ELSE Old[j]
            /\ (\A j \in DOMAIN Old : Old[j].fan # fan_op.arg.fan) => profiles = before
            /\ io = <<>>)
    /\ [][(/\ Called("save_fan_curve")
           /\ \E j \in DOMAIN Old : Old[j].fan = fan_op.arg.fan
           /\ fan_op'.name = "get_fan_curve_for"
           /\ fan_op'.profile = fan_op.profile
           /\ fan_op'.arg.fan = fan_op.arg.fan)
          => fan_ret' = Some(fan_op.arg)]_vars

\* A curve with other points than the stored ones saved over the GPU curve
\* of a list of three, and then looked up.
C23_Witness ==
    /\ Called("get_fan_curve_for")
    /\ fan_op.arg.fan = "GPU"
    /\ Len(List) = 3
    /\ fan_ret.tag = "Some"
    /\ fan_ret.val.pwm # dev_curve["GPU"]
    /\ List[1].pwm = dev_curve["CPU"]

\* C24: from a store just constructed, whatever calls are made, a policy
\* no read (read_from_device, or the re-read of reset_to_defaults) has
\* returned Ok for has an empty list; a curve is written to the device only
\* by write_to_device and only for a policy that was read; write_to_device,
\* set_enabled and save_curve on a policy never read access no device and
\* leave its list empty.
C24_ReadFirst ==
    /\ \A p \in PlatformPolicy : p \notin was_read => profiles[p] = <<>>
    /\ \A i \in DOMAIN io :
          io[i].kind = "write_curve" =>
              /\ Called("write_profile_curve_to_platform")
              /\ fan_op.profile \in was_read
    /\ (/\ fan_op.name \in {"write_profile_curve_to_platform", "save_fan_curve",
                            "set_profile_curves_enabled",
                            "set_profile_fan_curve_enabled"}
        /\ fan_op.profile \notin was_read)
       => (io = <<>> /\ List = <<>> /\ profiles = before)

\* After one policy was read and holds curves, a curve with points is saved
\* to the other, never read; its list is still empty.
C24_Witness ==
    /\ Called("save_fan_curve")
    /\ fan_op.arg.pwm # 0
    /\ fan_op.arg.enabled
    /\ fan_op.profile \notin was_read
    /\ List = <<>>
    /\ \E p \in was_read : Len(profiles[p]) = 3

DeviceCall ==
    fan_op.name \in {"read_from_dev_profile", "set_active_curve_to_defaults",
                     "write_profile_curve_to_platform"}

\* C25 as stated: a device access that fails during read_from_device,
\* reset_to_defaults or write_to_device makes the call return an error, and
\* is the last access of the call: it is not tried again and nothing is
\* read or written after it.
C25_Original ==
    DeviceCall =>
        \A i \in DOMAIN io :
            ~io[i].ok => (fan_ret.tag = "Err" /\ i = Len(io))

\* C25 for the accesses whose result the code looks at: a write of an
\* enable attribute or of a curve that fails makes the call return the I/O
\* error and is the last access of the call; a read of a curve that fails
\* does neither.
C25_WritesPropagate ==
    DeviceCall =>
        \A i \in DOMAIN io :
            (~io[i].ok /\ io[i].kind # "read") => (fan_ret = Err("Io") /\ i = Len(io))

\* The read of the first curve fails; the second curve is read all the same
\* and the call returns Ok.
C25_Witness ==
    /\ Called("read_from_dev_profile")
    /\ Len(io) >= 2
    /\ ~io[1].ok
    /\ io[2].ok
    /\ fan_ret = Ok("unit")
    /\ Unread(List[1])
    /\ Fresh(List[2])

\* The place of a fan in the order CPU, GPU, MID.
Rank(fan) == CASE fan = "CPU" -> 1 [] fan = "GPU" -> 2 [] fan = "MID" -> 3

\* C27 as stated: whatever calls were made on a store that started empty,
\* every policy's list holds at most one curve per fan unit, in the order
\* CPU, GPU, MID.
C27_Original ==
    \A p \in PlatformPolicy :
        \A i, j \in DOMAIN profiles[p] :
            i < j => Rank(profiles[p][i].fan) < Rank(profiles[p][j].fan)

\* C27 for what the code keeps: every list is empty or holds, in the order
\* CPU, GPU, MID, as many curves for a fan as there are attributes whose
\* name contains the fan's enable attribute name.
C27_OrderedPerAttribute ==
    \A p \in PlatformPolicy :
        \/ profiles[p] = <<>>
        \/ /\ \A i, j \in DOMAIN profiles[p] :
                 i < j => Rank(profiles[p][i].fan) <= Rank(profiles[p][j].fan)
           /\ \A f \in FanCurvePU :
                 Cardinality({i \in DOMAIN profiles[p] : profiles[p][i].fan = f})
                   = Cardinality({a \in attrs :
                                    contains(a, pwm_enable(FanCurvePU_into_char(f)))})

\* A list with two different curves for the CPU fan, after a save.
C27_Witness ==
    /\ Called("save_fan_curve")
    /\ Len(List) = 3
    /\ List[1].fan = "CPU"
    /\ List[2].fan = "CPU"
    /\ List[1] # List[2]
    /\ List[1] = fan_op.arg

(***************************************************************************)
(* Further properties of run_animation                                     *)
(***************************************************************************)

\* The run-time test after a callback (line 263).
TimeIsUp == timed /\ now - start > run_time

\* C26: a callback that returns an error does not stop the animation.  The
\* frame's callback answering Err leads, as for Ok(false), to the run-time
\* test; from there run_animation either ends because the time is up or
\* sleeps the frame's delay and goes on with the next frame; and a run whose
\* last callback answered Err has ended through the run-time test or the
\* pass count, never because of the error.
C26_ErrGoesOn ==
    /\ [][(calls' = calls + 1 /\ cb_ret' \in {Err("callback"), Ok(FALSE)})
          => pc' = "sent"]_vars
    /\ [][(pc = "sent" /\ cb_ret = Err("callback") /\ pc' # pc) =>
            IF TimeIsUp
            THEN pc' = "done" /\ calls' = calls
            ELSE /\ pc' = "frame"
                 /\ idx' = idx + 1
                 /\ now' = now + frames[idx + 1].delay
                 /\ log' = Append(log, <<"sleep", idx + 1>>)]_vars
    /\ []((pc = "done" /\ cb_ret = Err("callback")) =>
            \/ TimeIsUp
            \/ (duration.tag = "Count" /\ count >= duration.times))

\* The first frame's callback answered Err; run_animation has slept the
\* frame's delay and is about to transmit the second frame.
C26_Witness ==
    /\ cb_ret = Err("callback")
    /\ calls = 1
    /\ log = <<<<"transmit", 1>>, <<"sleep", 1>>>>
    /\ pc = "frame"
    /\ idx = 1
    /\ ENABLED Transmit(Ok(FALSE), 0)

\* C28: under Count(0) run_animation makes one pass, as under Count(1):
\* the frames are transmitted in order, none twice, and a run that ended
\* without the callback asking for it has transmitted every frame exactly
\* once and counted one pass.
C28_CountZero ==
    (duration = Count(0) /\ pc # "call") =>
        /\ calls <= Len(frames)
        /\ Transmitted = [k \in 1..calls |-> k]
        /\ (pc = "done" /\ ~Cancelled) =>
              /\ calls = Len(frames)
              /\ count = 1

\* A run of three frames under Count(0), over after three transmissions.
C28_Witness ==
    /\ duration = Count(0)
    /\ Len(frames) = 3
    /\ pc = "done"
    /\ ~Cancelled
    /\ calls = 3
    /\ count = 1

\* C29: under Fade the fade-in factor lags by one frame.  A frame that
\* starts inside the fade-in window is transmitted scaled by the factor
\* computed from the start time of the frame before it, by 0 if it is the
\* first frame, which is thus transmitted all-zero; the factor of the
\* frame's own start time is stored only then, for the next frame.
C29_FadeInLag ==
    [][(calls' = calls + 1 /\ IsFade /\ InFadeIn(frame_start')) =>
          /\ output' = ScaleAll(frames[idx + 1].data,
                                IF calls = 0 THEN Frac(0, 1)
                                ELSE StepTimes(fade_in_step, frame_start - start))
          /\ calls = 0 => output' = [i \in 1..FrameLen |-> 0]
          /\ fade_in_accum' = StepTimes(fade_in_step, frame_start' - start)]_vars

\* The second frame, started in the fade-in window after time has passed,
\* transmitted all-zero: the factor applied is the one of the first frame's
\* start, not the one of its own.
C29_Witness ==
    /\ IsFade
    /\ pc = "sent"
    /\ calls = 2
    /\ frame_start > start
    /\ InFadeIn(frame_start)
    /\ fade_in_step > 0
    /\ output = [i \in 1..FrameLen |-> 0]
    /\ ScaleAll(frames[idx + 1].data, fade_in_accum) # output

(***************************************************************************)
(* A further property of the command-line gif playback                     *)
(***************************************************************************)

\* C30: a loop count of 0 behaves like a negative one.  The countdown is 0
\* during the first pass and -1 from the end of that pass on, so it is never
\* 0 at the exit test: the playback never ends by count, it ends only when
\* a write fails, and until then it goes on writing the frames pass after
\* pass.
C30_ZeroLoopsForever ==
    (cli_pc # "idle" /\ AsI32(gif_loops) = 0) =>
        /\ loops = IF passes = 0 THEN 0 ELSE -1
        /\ cli_ret # Ok("unit")
        /\ cli_pc = "done" => cli_ret = Err("write")
        /\ cli_pc = "for" => writes = passes * Len(matrix) + cli_idx
        /\ (cli_pc = "for" /\ passes < PassCap) => ENABLED CliNext

\* A count of 0 on 2 frames: after 3 passes and 6 writes the playback is
\* still going on.
C30_Witness ==
    /\ gif_loops = U32(0, 0)
    /\ Len(matrix) = 2
    /\ cli_pc = "for"
    /\ passes = 3
    /\ writes = 6
    /\ loops = -1

====
